---- MODULE Spec2Model ----
(***************************************************************************)
(* Model of darter/file.py: the two snapshot container readers             *)
(* parse_elf_snapshot (ELF AppAOT) and parse_appjit_snapshot (raw AppJIT). *)
(* A behaviour is one call of one reader on one input file; the decoder    *)
(* (core.Snapshot) is external and is modelled by its call record and a    *)
(* nondeterministic outcome (a result, or a raised error).                 *)
(***************************************************************************)
EXTENDS Integers, Sequences, FiniteSets, TLC

VARIABLES
    reader,       \* which function was called: "elf" | "appjit"
    pc,           \* position in the function body
    err,          \* the exception that ended the call, "none" while running
    exists,       \* whether open(fname, 'rb') can succeed
    elftools,     \* has_elftools
    print_level,  \* kwargs.get('print_level', default)
    file,         \* raw container: the bytes of the file
    elf,          \* ELF container: what ELFFile exposes of the file
    base_arg,     \* the caller's `base` argument (parse_appjit_snapshot)
    handle,       \* the file object opened by the call: "none"|"open"|"closed"
    pos,          \* f.tell()
    magic,        \* local `magic`
    lengths,      \* local `lengths`
    symbols,      \* local `symbols` (name -> entry)
    blobs,        \* local `blobs`
    offsets,      \* local `offsets`
    base,         \* local `base`
    res,          \* the returned snapshot
    calls,        \* the Snapshot(...).parse() invocations made so far
    log           \* the log(n, x) calls made so far

vars == <<reader, pc, err, exists, elftools, print_level, file, elf, base_arg,
          handle, pos, magic, lengths, symbols, blobs, offsets, base, res,
          calls, log>>

(***************************************************************************)
(* Bounds of the model.                                                    *)
(***************************************************************************)
\* kAppSnapshotPageSize (4 KiB in the VM), scaled down so that files stay small
kAppSnapshotPageSize == 4
\* data_size of the ELF sections holding the blobs
SectionSize == 4
\* bytes that may follow the last declared blob of a raw container
MaxTrailing == 3

(***************************************************************************)
(* Program constants.                                                      *)
(***************************************************************************)
\* f.read(8): the '<Q' magic field
MagicSize == 8
\* one '<q' length field of f.read(4 * 8)
LengthSize == 8
\* default print_level of parse_elf_snapshot
ElfPrintLevel == 4
\* default print_level of parse_appjit_snapshot
AppJitPrintLevel == 3
\* constants.kAppJITMagic (scaled down to a small value)
kAppJITMagic == 56540
\* constants.kAppAOTSymbols: the four symbol names, in extraction order
kAppAOTSymbols ==
    << "_kDartVmSnapshotData", "_kDartVmSnapshotInstructions",
       "_kDartIsolateSnapshotData", "_kDartIsolateSnapshotInstructions" >>

HeaderSize == MagicSize + 4 * LengthSize

Min(a, b) == IF a < b THEN a ELSE b
Max(a, b) == IF a > b THEN a ELSE b

(***************************************************************************)
(* struct.unpack / struct.pack, little endian.                             *)
(***************************************************************************)
RECURSIVE UnsignedLE(_)
\* the unsigned value of a little-endian byte string
UnsignedLE(bytes) ==
    IF bytes = <<>> THEN 0
    ELSE Head(bytes) + 256 * UnsignedLE(Tail(bytes))

\* unpack('<Q', bytes)[0]
UnpackQ(bytes) == UnsignedLE(bytes)

\* unpack('<q', bytes)[0]: two's complement
Unpackq(bytes) ==
    IF bytes[Len(bytes)] >= 128
    THEN -(UnsignedLE([i \in 1..Len(bytes) |-> 255 - bytes[i]]) + 1)
    ELSE UnsignedLE(bytes)

\* unpack('<qqqq', bytes)
Unpackqqqq(bytes) ==
    [k \in 1..4 |-> Unpackq(SubSeq(bytes, (k - 1) * LengthSize + 1, k * LengthSize))]

RECURSIVE PackLE(_, _)
\* the n-byte little-endian two's complement encoding of v (file fixture)
PackLE(v, n) ==
    IF n = 0 THEN <<>>
    ELSE <<v % 256>> \o PackLE(v \div 256, n - 1)

(***************************************************************************)
(* File objects.                                                           *)
(***************************************************************************)
\* f.read(n) at position p of a file object over `bytes`: the bytes obtained.
\* n = -1 reads to the end of the file; n < -1 raises (see ReadRaises).
FileRead(bytes, p, n) ==
    IF n < 0 THEN SubSeq(bytes, p + 1, Len(bytes))
    ELSE SubSeq(bytes, p + 1, Min(p + n, Len(bytes)))

\* BufferedReader.read(n) raises ValueError for n < -1
ReadRaises(n) == n < -1

\* the argument of f.seek in the blob loop, for f.tell() = p
\* (variants: skipping a page from a boundary; rounding down)
SeekTarget_noskip(p) == (p \div kAppSnapshotPageSize + 1) * kAppSnapshotPageSize
SeekTarget_floor(p) == (p \div kAppSnapshotPageSize) * kAppSnapshotPageSize
SeekTarget(p) == ((p - 1) \div kAppSnapshotPageSize + 1) * kAppSnapshotPageSize

(***************************************************************************)
(* Snapshots (core.Snapshot results), as far as this file reads them.      *)
(***************************************************************************)
NoneSnap   == [id |-> "None",   parent |-> "None", arch |-> <<>>, is_64 |-> FALSE]
CallerSnap == [id |-> "caller", parent |-> "None", arch |-> <<"x","6","4","-","p">>, is_64 |-> TRUE]

\* the decoder invocation Snapshot(data=..., ..., vm=..., base=...).parse()
SnapshotCall(data, data_offset, instructions, instructions_offset, vm, b) ==
    [data |-> data, data_offset |-> data_offset,
     instructions |-> instructions, instructions_offset |-> instructions_offset,
     vm |-> vm, base |-> b]

\* what parse() returns for a call: a snapshot that remembers its parent
Parsed(call, arch, is_64) ==
    [id |-> IF call.vm THEN "vm" ELSE "isolate", parent |-> call.base.id,
     arch |-> arch, is_64 |-> is_64]

\* log(n, x): the call is recorded; it prints when print_level >= n
Log(n, x) == log' = Append(log, [level |-> n, text |-> x])
Printed == SelectSeq(log, LAMBDA e : print_level >= e.level)

\* The function has no close() and no with-block: when the call ends, the file
\* object is left to the runtime's finalizer, which may or may not have run.
Release == handle' \in (IF handle = "open" THEN {"open", "closed"} ELSE {handle})

Raise(e) == pc' = "raised" /\ err' = e /\ Release
Return   == pc' = "returned" /\ err' = err /\ Release

(***************************************************************************)
(* Input files of the raw (AppJIT) reader.                                 *)
(***************************************************************************)
\* the length fields a header may declare: invalid, read-to-end, absent,
\* shorter than a page, exactly a page
Lens == {-2, -1, 0, 1, kAppSnapshotPageSize}
Magics == {kAppJITMagic, kAppJITMagic + 1}

\* the byte the writer put at file offset o of the payload
PayloadByte(o) == (o * 7 + 1) % 256

\* the writer's padding: the first page boundary at or after p
PageAlign(p) ==
    ((p + kAppSnapshotPageSize - 1) \div kAppSnapshotPageSize) * kAppSnapshotPageSize

RECURSIVE DeclaredEnd(_, _, _)
\* the file offset just after blob k..4 as the header declares them, from p
DeclaredEnd(ls, k, p) ==
    IF k > 4 THEN p
    ELSE DeclaredEnd(ls, k + 1, PageAlign(p) + Max(ls[k], 0))

\* a file of `size` bytes: the 40-byte header, then the payload
RawFile(m, ls, size) ==
    LET header == PackLE(m, MagicSize) \o PackLE(ls[1], LengthSize)
                  \o PackLE(ls[2], LengthSize) \o PackLE(ls[3], LengthSize)
                  \o PackLE(ls[4], LengthSize)
    IN  [i \in 1..size |-> IF i <= HeaderSize THEN header[i] ELSE PayloadByte(i - 1)]

\* file sizes: header cut short, payload missing, last byte missing, exact,
\* trailing bytes
RawSizes(ls) ==
    LET end == DeclaredEnd(ls, 1, HeaderSize)
    IN  {HeaderSize \div 2, PageAlign(HeaderSize), end - 1, end, end + MaxTrailing}

\* what ELFFile finds in a file that is no ELF file
NotAnElf == [ident_ok |-> FALSE, e_machine |-> "", elfclass |-> 0, sections |-> <<>>]

InitLocals ==
    /\ pc = "open"
    /\ err = "none"
    /\ handle = "none"
    /\ pos = 0
    /\ magic = 0
    /\ lengths = <<>>
    /\ symbols = <<>>
    /\ blobs = <<>>
    /\ offsets = <<>>
    /\ res = NoneSnap
    /\ calls = <<>>
    /\ log = <<>>

InitAppJit ==
    /\ reader = "appjit"
    /\ elftools = TRUE
    /\ elf = NotAnElf
    /\ print_level \in {0, AppJitPrintLevel}
    /\ base_arg \in {NoneSnap, CallerSnap}
    /\ base = base_arg
    /\ \/ /\ exists = FALSE
          /\ file = <<>>
       \/ /\ exists = TRUE
          /\ \E m \in Magics, ls \in [1..4 -> Lens] :
               \E size \in RawSizes(ls) : file = RawFile(m, ls, size)
    /\ InitLocals

(***************************************************************************)
(* parse_appjit_snapshot                                                   *)
(***************************************************************************)
\* f = open(fname, 'rb')
AppJitOpen ==
    /\ reader = "appjit" /\ pc = "open"
    /\ IF exists
       THEN /\ handle' = "open"
            /\ pc' = "magic"
            /\ err' = err
       ELSE Raise("IOError")
    /\ UNCHANGED <<reader, exists, elftools, print_level, file, elf, base_arg,
                   pos, magic, lengths, symbols, blobs, offsets, base, res,
                   calls, log>>

\* the magic comparison: a mismatch is logged at level 1, nothing else
\* (variant: a mismatch that aborts)
MagicCheck_fatal(m) ==
    IF m # kAppJITMagic
    THEN Raise("FormatError") /\ log' = log
    ELSE pc' = "lengths" /\ UNCHANGED <<err, handle, log>>
MagicCheck(m) ==
    /\ pc' = "lengths"
    /\ UNCHANGED <<err, handle>>
    /\ IF m # kAppJITMagic
       THEN Log(1, "WARN: Magic not matching")
       ELSE log' = log

\* magic = unpack('<Q', f.read(8))[0]; if magic != kAppJITMagic: log(1, ...)
AppJitReadMagic ==
    /\ reader = "appjit" /\ pc = "magic"
    /\ LET data == FileRead(file, pos, MagicSize)
       IN  /\ pos' = pos + Len(data)
           /\ IF Len(data) # MagicSize
              THEN /\ Raise("struct.error")
                   /\ UNCHANGED <<magic, log>>
              ELSE /\ magic' = UnpackQ(data)
                   /\ MagicCheck(UnpackQ(data))
    /\ UNCHANGED <<reader, exists, elftools, print_level, file, elf, base_arg,
                   lengths, symbols, blobs, offsets, base, res, calls>>

\* lengths = unpack('<qqqq', f.read(4 * 8))
AppJitReadLengths ==
    /\ reader = "appjit" /\ pc = "lengths"
    /\ LET data == FileRead(file, pos, 4 * LengthSize)
       IN  /\ pos' = pos + Len(data)
           /\ IF Len(data) # 4 * LengthSize
              THEN /\ Raise("struct.error")
                   /\ lengths' = lengths
              ELSE /\ lengths' = Unpackqqqq(data)
                   /\ pc' = "blobs"
                   /\ UNCHANGED <<err, handle>>
    /\ UNCHANGED <<reader, exists, elftools, print_level, file, elf, base_arg,
                   magic, symbols, blobs, offsets, base, res, calls, log>>

\* one iteration of `for length in lengths`: seek, record the offset, read
AppJitExtractBlob ==
    /\ reader = "appjit" /\ pc = "blobs"
    /\ LET length == lengths[Len(blobs) + 1]
           target == SeekTarget(pos)
           blob   == FileRead(file, target, length)
       IN  /\ offsets' = Append(offsets, target)
           /\ IF ReadRaises(length)
              THEN /\ Raise("ValueError")
                   /\ pos' = target
                   /\ blobs' = blobs
              ELSE /\ blobs' = Append(blobs, blob)
                   /\ pos' = target + Len(blob)
                   /\ pc' = IF Len(blobs) + 1 = 4 THEN "vm" ELSE "blobs"
                   /\ UNCHANGED <<err, handle>>
    /\ UNCHANGED <<reader, exists, elftools, print_level, file, elf, base_arg,
                   magic, lengths, symbols, base, res, calls, log>>

\* `if blobs[0]:` whether the VM snapshot is parsed
VmPresent == blobs[1] # <<>>

\* `assert not lengths[1]` passes (variant: no assertion)
VmInstructionsAbsent_unchecked == TRUE
VmInstructionsAbsent == lengths[2] = 0

\* the outcomes of Snapshot(...).parse() this file can tell apart
Archs == { <<"x","6","4","-","p">>, <<"a","r","m","-","p">>,
           <<"a","r","m","6","4","-","p">> }

\* if blobs[0]: base = Snapshot(..., vm=True, **kwargs).parse()
AppJitParseVm ==
    /\ reader = "appjit" /\ pc = "vm" /\ VmPresent
    /\ LET call == SnapshotCall(blobs[1], offsets[1], blobs[2], offsets[2],
                                TRUE, NoneSnap)
       IN  /\ calls' = Append(calls, call)
           /\ Log(3, "PARSING VM SNAPSHOT")
           /\ \/ /\ Raise("DecoderError")
                 /\ base' = base
              \/ /\ base' = Parsed(call, <<"x","6","4","-","p">>, TRUE)
                 /\ pc' = "isolate"
                 /\ UNCHANGED <<err, handle>>
    /\ UNCHANGED <<reader, exists, elftools, print_level, file, elf, base_arg,
                   pos, magic, lengths, symbols, blobs, offsets, res>>

\* else: log(3, ...); assert not lengths[1]
AppJitSkipVm ==
    /\ reader = "appjit" /\ pc = "vm" /\ ~VmPresent
    /\ Log(3, "No base snapshot, skipping base snapshot parsing...")
    /\ IF VmInstructionsAbsent
       THEN pc' = "isolate" /\ UNCHANGED <<err, handle>>
       ELSE Raise("AssertionError")
    /\ UNCHANGED <<reader, exists, elftools, print_level, file, elf, base_arg,
                   pos, magic, lengths, symbols, blobs, offsets, base, res,
                   calls>>

\* return Snapshot(data=blobs[2], ..., base=base, **kwargs).parse()
AppJitParseIsolate ==
    /\ reader = "appjit" /\ pc = "isolate"
    /\ LET call == SnapshotCall(blobs[3], offsets[3], blobs[4], offsets[4],
                                FALSE, base)
       IN  /\ calls' = Append(calls, call)
           /\ Log(3, "PARSING ISOLATE SNAPSHOT")
           /\ \/ /\ Raise("DecoderError")
                 /\ res' = res
              \/ /\ res' = Parsed(call, <<"x","6","4","-","p">>, TRUE)
                 /\ Return
    /\ UNCHANGED <<reader, exists, elftools, print_level, file, elf, base_arg,
                   pos, magic, lengths, symbols, blobs, offsets, base>>

parse_appjit_snapshot ==
    \/ AppJitOpen
    \/ AppJitReadMagic
    \/ AppJitReadLengths
    \/ AppJitExtractBlob
    \/ AppJitParseVm
    \/ AppJitSkipVm
    \/ AppJitParseIsolate

(***************************************************************************)
(* Input files of the ELF (AppAOT) reader.                                 *)
(***************************************************************************)
\* the byte at index j of the data of the section at virtual address a
SectionByte(a, j) == (a * 16 + j) % 256

Section(name, sh_addr, size, syms) ==
    [name |-> name, sh_addr |-> sh_addr,
     data |-> [j \in 1..size |-> SectionByte(sh_addr, j - 1)],
     symtab |-> syms # <<>>, syms |-> syms]

Sym(name, st_value, st_size) ==
    [name |-> name, entry |-> [st_value |-> st_value, st_size |-> st_size]]

\* virtual address of the first blob section
ImageBase == 2 * SectionSize

\* what a symbol table may say of a required symbol: nothing (0), a blob at
\* the start of .rodata, a blob in the bytes .rodata and .text share, a blob
\* running past the end of .rodata, a blob inside .data, an address in no
\* section
SymChoices == 0..5
SymEntry(name, c) ==
    CASE c = 1 -> <<Sym(name, ImageBase, 2)>>
      [] c = 2 -> <<Sym(name, ImageBase + SectionSize - 2, 2)>>
      [] c = 3 -> <<Sym(name, ImageBase + SectionSize - 2, SectionSize)>>
      [] c = 4 -> <<Sym(name, ImageBase + 2 * SectionSize + 1, 2)>>
      [] c = 5 -> <<Sym(name, ImageBase + 3 * SectionSize + 2, 2)>>
      [] OTHER -> <<>>

\* .dynsym (when dup) names the first symbol too, at an address in no section;
\* .symtab comes after it. .rodata and .text overlap in their last/first bytes.
ElfImage(ch, dup, machine, class) ==
    [ident_ok |-> TRUE,
     e_machine |-> machine,
     elfclass |-> class,
     sections |->
       << Section(".dynsym", 0, 0,
                  <<Sym("main", ImageBase, 1)>>
                  \o (IF dup THEN SymEntry(kAppAOTSymbols[1], 5) ELSE <<>>)),
          Section(".rodata", ImageBase, SectionSize, <<>>),
          Section(".text", ImageBase + SectionSize - 2, SectionSize, <<>>),
          Section(".data", ImageBase + 2 * SectionSize, SectionSize, <<>>),
          Section(".symtab", 0, 0,
                  <<Sym("main", ImageBase, 1)>>
                  \o SymEntry(kAppAOTSymbols[1], ch[1])
                  \o SymEntry(kAppAOTSymbols[2], ch[2])
                  \o SymEntry(kAppAOTSymbols[3], ch[3])
                  \o SymEntry(kAppAOTSymbols[4], ch[4])) >>]

Machines == { <<"EM_X86_64", 64>>, <<"EM_ARM", 32>>, <<"EM_MIPS", 64>> }

InitElf ==
    /\ reader = "elf"
    /\ file = <<>>
    /\ base_arg = NoneSnap
    /\ base = NoneSnap
    /\ print_level \in {0, ElfPrintLevel}
    /\ \/ /\ elftools = FALSE /\ exists = TRUE /\ elf = NotAnElf
       \/ /\ elftools = TRUE /\ exists = FALSE /\ elf = NotAnElf
       \/ /\ elftools = TRUE /\ exists = TRUE /\ elf = NotAnElf
       \/ /\ elftools = TRUE /\ exists = TRUE
          /\ \E ch \in [1..4 -> SymChoices], dup \in BOOLEAN, m \in Machines :
               elf = ElfImage(ch, dup, m[1], m[2])
    /\ InitLocals

(***************************************************************************)
(* parse_elf_snapshot                                                      *)
(***************************************************************************)
RECURSIVE Flatten(_)
\* [sym for table in tables for sym in table.iter_symbols()]
Flatten(tables) ==
    IF tables = <<>> THEN <<>>
    ELSE Head(tables).syms \o Flatten(Tail(tables))

RECURSIVE SymbolIndex(_)
\* { sym.name: sym.entry for ... }: a later entry replaces an earlier one
SymbolIndex(syms) ==
    IF syms = <<>> THEN <<>>
    ELSE LET n0   == Len(syms)
             rest == SymbolIndex(SubSeq(syms, 1, n0 - 1))
             last == syms[n0]
         IN  [n \in DOMAIN rest \cup {last.name} |->
                IF n = last.name THEN last.entry ELSE rest[n]]

\* 0 <= s.st_value - S['sh_addr'] < S.data_size
InSection(S, s) ==
    /\ 0 <= s.st_value - S.sh_addr
    /\ s.st_value - S.sh_addr < Len(S.data)

\* next(S for S in sections if ...): the index of the first match, 0 if none
\* (variant: the last match)
FirstSection_last(sections, s) ==
    LET hits == {k \in 1..Len(sections) : InSection(sections[k], s)}
    IN  IF hits = {} THEN 0 ELSE CHOOSE k \in hits : \A j \in hits : k >= j
FirstSection(sections, s) ==
    LET hits == {k \in 1..Len(sections) : InSection(sections[k], s)}
    IN  IF hits = {} THEN 0 ELSE CHOOSE k \in hits : \A j \in hits : k <= j

\* section.data()[(s.st_value - section['sh_addr']):][:s.st_size]
SliceBlob(S, s) ==
    LET start == s.st_value - S.sh_addr
    IN  SubSeq(S.data, start + 1, Min(start + s.st_size, Len(S.data)))

\* `assert len(blob) == s.st_size` passes
SizeMatches(blob, s) == Len(blob) = s.st_size

\* has_elftools check, ELFFile(open(fname, 'rb')), sections, tables, symbols
ElfOpen ==
    /\ reader = "elf" /\ pc = "open"
    /\ IF ~elftools
       THEN Raise("Exception") /\ symbols' = symbols
       ELSE IF ~exists
       THEN Raise("IOError") /\ symbols' = symbols
       ELSE IF ~elf.ident_ok
       THEN /\ pc' = "raised" /\ err' = "ELFError"
            /\ handle' \in {"open", "closed"}
            /\ symbols' = symbols
       ELSE /\ handle' = "open"
            /\ symbols' = SymbolIndex(Flatten(SelectSeq(elf.sections,
                                                        LAMBDA S : S.symtab)))
            /\ pc' = "blobs"
            /\ err' = err
    /\ UNCHANGED <<reader, exists, elftools, print_level, file, elf, base_arg,
                   pos, magic, lengths, blobs, offsets, base, res, calls, log>>

\* one iteration of `for s in kAppAOTSymbols`
ElfExtractBlob ==
    /\ reader = "elf" /\ pc = "blobs"
    /\ LET name == kAppAOTSymbols[Len(blobs) + 1]
       IN  IF name \notin DOMAIN symbols
           THEN Raise("KeyError") /\ UNCHANGED <<blobs, offsets>>
           ELSE LET s == symbols[name]
                    k == FirstSection(elf.sections, s)
                IN  IF k = 0
                    THEN Raise("StopIteration") /\ UNCHANGED <<blobs, offsets>>
                    ELSE LET blob == SliceBlob(elf.sections[k], s)
                         IN  IF ~SizeMatches(blob, s)
                             THEN Raise("AssertionError")
                                  /\ UNCHANGED <<blobs, offsets>>
                             ELSE /\ blobs' = Append(blobs, blob)
                                  /\ offsets' = Append(offsets, s.st_value)
                                  /\ pc' = IF Len(blobs) + 1 = 4
                                           THEN "vm" ELSE "blobs"
                                  /\ UNCHANGED <<err, handle>>
    /\ UNCHANGED <<reader, exists, elftools, print_level, file, elf, base_arg,
                   pos, magic, lengths, symbols, base, res, calls, log>>

\* the base= of the second Snapshot (variant: no parent)
ElfIsolateBase_none == NoneSnap
ElfIsolateBase == base

\* base = Snapshot(data=blobs[0], ..., vm=True, **kwargs).parse()
ElfParseVm ==
    /\ reader = "elf" /\ pc = "vm"
    /\ LET call == SnapshotCall(blobs[1], offsets[1], blobs[2], offsets[2],
                                TRUE, NoneSnap)
       IN  /\ calls' = Append(calls, call)
           /\ Log(3, "PARSING VM SNAPSHOT")
           /\ \/ /\ Raise("DecoderError")
                 /\ base' = base
              \/ /\ base' = Parsed(call, <<"x","6","4","-","p">>, TRUE)
                 /\ pc' = "isolate"
                 /\ UNCHANGED <<err, handle>>
    /\ UNCHANGED <<reader, exists, elftools, print_level, file, elf, base_arg,
                   pos, magic, lengths, symbols, blobs, offsets, res>>

\* res = Snapshot(data=blobs[2], ..., base=base, **kwargs).parse()
ElfParseIsolate ==
    /\ reader = "elf" /\ pc = "isolate"
    /\ LET call == SnapshotCall(blobs[3], offsets[3], blobs[4], offsets[4],
                                FALSE, ElfIsolateBase)
       IN  /\ calls' = Append(calls, call)
           /\ Log(3, "PARSING ISOLATE SNAPSHOT")
           /\ \/ /\ Raise("DecoderError")
                 /\ res' = res
              \/ /\ \E arch \in Archs, is_64 \in BOOLEAN :
                      res' = Parsed(call, arch, is_64)
                 /\ pc' = "archs"
                 /\ UNCHANGED <<err, handle>>
    /\ UNCHANGED <<reader, exists, elftools, print_level, file, elf, base_arg,
                   pos, magic, lengths, symbols, blobs, offsets, base>>

\* archs.get(f['e_machine']); a tag outside the table gives None
ArchOfMachine(e_machine) ==
    CASE e_machine = "EM_386"     -> <<"i","a","3","2">>
      [] e_machine = "EM_X86_64"  -> <<"x","6","4">>
      [] e_machine = "EM_ARM"     -> <<"a","r","m">>
      [] e_machine = "EM_AARCH64" -> <<"a","r","m","6","4">>
      [] OTHER                    -> <<"None">>

RECURSIVE SplitFirst(_)
\* arch.split('-')[0]
SplitFirst(str) ==
    IF str = <<>> \/ Head(str) = "-" THEN <<>>
    ELSE <<Head(str)>> \o SplitFirst(Tail(str))

\* the condition of the arch/class warning
ArchMismatch(img, r) ==
    \/ ArchOfMachine(img.e_machine) # SplitFirst(r.arch)
    \/ (img.elfclass = 64) # r.is_64

\* the arch/class check: a mismatch is logged at level 1; then `return res`
ElfArchCheck ==
    /\ reader = "elf" /\ pc = "archs"
    /\ IF ArchMismatch(elf, res)
       THEN Log(1, "WARN: ELF arch and/or class not matching snapshot")
       ELSE log' = log
    /\ Return
    /\ UNCHANGED <<reader, exists, elftools, print_level, file, elf, base_arg,
                   pos, magic, lengths, symbols, blobs, offsets, base, res,
                   calls>>

parse_elf_snapshot ==
    \/ ElfOpen
    \/ ElfExtractBlob
    \/ ElfParseVm
    \/ ElfParseIsolate
    \/ ElfArchCheck

Init == InitAppJit \/ InitElf
Next == parse_appjit_snapshot \/ parse_elf_snapshot
Spec == Init /\ [][Next]_vars

(***************************************************************************)
(* Vocabulary of the properties.                                           *)
(***************************************************************************)
IsAppJit == reader = "appjit"
IsElf    == reader = "elf"
Ended    == pc \in {"returned", "raised"}
HeaderRead == IsAppJit /\ Len(lengths) = 4

\* a well-formed raw container: no negative length, and the file holds every
\* declared byte
WellFormed ==
    /\ HeaderRead
    /\ \A k \in 1..4 : lengths[k] >= 0
    /\ Len(file) >= DeclaredEnd(lengths, 1, HeaderSize)

RECURSIVE ManualOffset(_, _)
\* blob boundaries re-derived from the header lengths and the page size alone
ManualOffset(ls, k) ==
    IF k = 1 THEN PageAlign(HeaderSize)
    ELSE PageAlign(ManualOffset(ls, k - 1) + ls[k - 1])

\* bytes[a : a + n], each byte taken from the file one by one
ManualSlice(bytes, a, n) == [i \in 1..n |-> bytes[a + i]]

\* the slot (1..4) of the data blob of a decoder call
DataSlot(call) == IF call.vm THEN 1 ELSE 3

\* a header none of whose lengths is negative
NoNegativeLength == \A k \in 1..Len(lengths) : lengths[k] >= 0

\* the length the container declares for slot k
DeclaredLength(k) ==
    IF IsAppJit THEN lengths[k] ELSE symbols[kAppAOTSymbols[k]].st_size

VmCalls      == {i \in 1..Len(calls) : calls[i].vm}
IsolateCalls == {i \in 1..Len(calls) : ~calls[i].vm}

Warnings == SelectSeq(log, LAMBDA e : e.level = 1)

(***************************************************************************)
(* C1                                                                      *)
(***************************************************************************)
\* C1 (as stated): for any well-formed raw container the four recorded blob
\* offsets are strictly increasing and each is a multiple of the page size.
C1_OffsetsStrictlyIncreasing ==
    (WellFormed /\ Len(offsets) = 4) =>
        /\ \A k \in 1..3 : offsets[k] < offsets[k + 1]
        /\ \A k \in 1..4 : offsets[k] % kAppSnapshotPageSize = 0

\* C1 (amended): for any well-formed raw container the recorded blob offsets
\* are non-decreasing, offset[k] < offset[k+1] exactly when length k is
\* positive (a zero length leaves the next offset equal), and each is a
\* multiple of the page size.
C1_OffsetsMonotoneAligned ==
    WellFormed =>
        /\ \A k \in 1..Len(offsets) : offsets[k] % kAppSnapshotPageSize = 0
        /\ \A k \in 1..(Len(offsets) - 1) :
             /\ offsets[k] <= offsets[k + 1]
             /\ (offsets[k] < offsets[k + 1]) <=> (lengths[k] > 0)

C1_Witness ==
    /\ WellFormed /\ Len(offsets) = 4
    /\ lengths[1] = 0 /\ offsets[1] = offsets[2]
    /\ lengths[3] > 0 /\ offsets[3] < offsets[4]

(***************************************************************************)
(* C2                                                                      *)
(***************************************************************************)
\* C2: in both readers every blob handed to the decoder has exactly the
\* length declared for its slot; a blob of any other length is never handed
\* to the decoder. (Stated for headers without negative lengths, so that the
\* declared length is one a blob can have.)
C2_BlobLengthExact ==
    NoNegativeLength => \A i \in 1..Len(calls) :
        /\ Len(calls[i].data) = DeclaredLength(DataSlot(calls[i]))
        /\ Len(calls[i].instructions) = DeclaredLength(DataSlot(calls[i]) + 1)

(***************************************************************************)
(* C3                                                                      *)
(***************************************************************************)
\* C3 (as stated): raw reader, first length 0: the decoder is never invoked
\* for the base pair; if the second length is non-zero the call fails with
\* the assertion error before any decoder invocation.
C3_AssertionBeforeDecode ==
    (HeaderRead /\ lengths[1] = 0) =>
        /\ VmCalls = {}
        /\ lengths[2] # 0 =>
             /\ calls = <<>>
             /\ pc # "returned"
             /\ pc = "raised" => err = "AssertionError"

\* C3 (amended): raw reader, first length 0: the decoder is never invoked
\* for the base pair; if the second length is non-zero the call fails before
\* any decoder invocation: with the assertion error if the four blob reads
\* complete, otherwise with the error of the failing read (the ValueError of
\* a length below -1).
C3_FailsBeforeDecode ==
    (HeaderRead /\ lengths[1] = 0) =>
        /\ VmCalls = {}
        /\ lengths[2] # 0 =>
             /\ calls = <<>>
             /\ pc \notin {"isolate", "returned"}
             /\ (pc = "raised" /\ Len(blobs) = 4) => err = "AssertionError"
             /\ (pc = "raised" /\ Len(blobs) < 4) =>
                  /\ err = "ValueError"
                  /\ lengths[Len(blobs) + 1] < -1

C3_Witness ==
    /\ HeaderRead /\ lengths[1] = 0 /\ lengths[2] # 0
    /\ Len(blobs) = 4 /\ pc = "raised" /\ err = "AssertionError"

(***************************************************************************)
(* C4                                                                      *)
(***************************************************************************)
\* C4: raw reader, first length non-zero: the decoder is invoked on blob
\* pair (0,1) as the VM snapshot, with no parent, before the isolate decode,
\* however many bytes of blob 0 the file supplied. (Stated for headers
\* without negative lengths.)
C4_BaseDecodedWhenDeclared ==
    (HeaderRead /\ NoNegativeLength /\ lengths[1] # 0
       /\ (pc = "isolate" \/ IsolateCalls # {})) =>
        /\ calls # <<>>
        /\ calls[1] = SnapshotCall(blobs[1], offsets[1], blobs[2], offsets[2],
                                   TRUE, NoneSnap)

(***************************************************************************)
(* C5                                                                      *)
(***************************************************************************)
\* C5: when a reader has returned or raised, the file handle that call
\* opened is closed.
C5_HandleReleased == Ended => handle \in {"none", "closed"}

(***************************************************************************)
(* C6                                                                      *)
(***************************************************************************)
\* C6: raw reader: each recorded offset is ceil(p / page_size) * page_size
\* for the read position p just before the blob (40 for the first, the end
\* of the previous blob otherwise); for a well-formed container the offsets
\* are those re-derived from the header lengths and each blob is the file
\* bytes [offset, offset + length).
C6_BlobsAreManualSlices ==
    IsAppJit =>
        /\ \A k \in 1..Len(offsets) :
             offsets[k] = PageAlign(IF k = 1 THEN HeaderSize
                                    ELSE offsets[k - 1] + Len(blobs[k - 1]))
        /\ WellFormed =>
             /\ \A k \in 1..Len(offsets) : offsets[k] = ManualOffset(lengths, k)
             /\ \A k \in 1..Len(blobs) :
                  blobs[k] = ManualSlice(file, ManualOffset(lengths, k), lengths[k])

C6_Witness ==
    /\ WellFormed /\ Len(blobs) = 4
    /\ lengths[1] = kAppSnapshotPageSize /\ offsets[2] = offsets[1] + lengths[1]
    /\ lengths[2] = 1 /\ offsets[3] = offsets[2] + kAppSnapshotPageSize
    /\ lengths[3] = 1 /\ lengths[4] = 1

(***************************************************************************)
(* C7                                                                      *)
(***************************************************************************)
\* C7: ELF reader: a call that returns has invoked the decoder exactly
\* twice, on blobs (0,1) as VM snapshot without parent, then on blobs (2,3)
\* as isolate with the first result as parent, and returns the second
\* result; the decoder is invoked only after all four blobs were extracted
\* and length-checked, so a failing symbol means no decoder invocation.
C7_ElfDecodeOrder ==
    IsElf =>
        /\ pc = "returned" =>
             /\ Len(calls) = 2
             /\ calls[1] = SnapshotCall(blobs[1], offsets[1], blobs[2],
                                        offsets[2], TRUE, NoneSnap)
             /\ calls[2] = SnapshotCall(blobs[3], offsets[3], blobs[4],
                                        offsets[4], FALSE, base)
             /\ base.id = "vm" /\ base.parent = "None"
             /\ res.id = "isolate" /\ res.parent = "vm"
        /\ calls # <<>> =>
             /\ Len(blobs) = 4
             /\ \A k \in 1..4 : Len(blobs[k]) = DeclaredLength(k)
        /\ Len(blobs) < 4 => calls = <<>>
        /\ err \in {"KeyError", "StopIteration", "AssertionError"} =>
             calls = <<>>

C7_Witness ==
    /\ IsElf /\ pc = "returned" /\ Len(calls) = 2
    /\ calls[1].vm /\ ~calls[2].vm /\ calls[2].base.id = "vm"

(***************************************************************************)
(* C8                                                                      *)
(***************************************************************************)
\* the header lengths as the file holds them
HeaderLengths == Unpackqqqq(SubSeq(file, MagicSize + 1, HeaderSize))

RECURSIVE RefOffset(_), RefBlob(_)
\* offsets and blobs of the raw container derived from the bytes after the
\* magic field alone
RefOffset(k) ==
    PageAlign(IF k = 1 THEN HeaderSize
              ELSE RefOffset(k - 1) + Len(RefBlob(k - 1)))
RefBlob(k) ==
    LET a   == RefOffset(k)
        n   == HeaderLengths[k]
        end == IF n < 0 THEN Len(file) ELSE Min(a + n, Len(file))
    IN  [i \in 1..(end - a) |-> file[a + i]]

\* the decoder calls of a raw container, derived likewise
RefCalls ==
    LET vm     == SnapshotCall(RefBlob(1), RefOffset(1), RefBlob(2),
                               RefOffset(2), TRUE, NoneSnap)
        iso(b) == SnapshotCall(RefBlob(3), RefOffset(3), RefBlob(4),
                               RefOffset(4), FALSE, b)
    IN  IF RefBlob(1) # <<>>
        THEN <<vm, iso(Parsed(vm, <<"x","6","4","-","p">>, TRUE))>>
        ELSE <<iso(base_arg)>>

IsPrefix(a, b) == Len(a) <= Len(b) /\ SubSeq(b, 1, Len(a)) = a
BeginsWith(str, prefix) == IsPrefix(prefix, str)

MagicWarning == [level |-> 1, text |-> "WARN: Magic not matching"]
ArchWarning  == [level |-> 1, text |-> "WARN: ELF arch and/or class not matching snapshot"]

\* C8: the non-fatal diagnostics never change the outcome. (a) raw reader:
\* a magic other than the expected constant is logged as a warning (printed
\* unless print_level is below 1), and lengths, offsets, blobs, decoder calls
\* and errors are those the rest of the file determines, whatever the magic.
\* (b) ELF reader: once the isolate decode succeeded the call returns its
\* result, and a machine tag whose architecture differs from the decoded
\* architecture prefix, or a class that disagrees with is_64, is logged as a
\* warning.
C8_WarningsNotFatal ==
    /\ (IsAppJit /\ magic # 0) =>
         /\ Warnings = IF magic # kAppJITMagic THEN <<MagicWarning>> ELSE <<>>
         /\ print_level >= 1 => IsPrefix(Warnings, Printed)
         /\ pc # "magic"
         /\ err \in {"none", "struct.error", "ValueError", "AssertionError",
                     "DecoderError"}
         /\ err = "struct.error" => Len(file) < HeaderSize
         /\ (Len(file) >= HeaderSize /\ pc # "lengths") => HeaderRead
         /\ HeaderRead =>
              /\ lengths = HeaderLengths
              /\ \A k \in 1..Len(offsets) : offsets[k] = RefOffset(k)
              /\ \A k \in 1..Len(blobs) : blobs[k] = RefBlob(k)
              /\ IsPrefix(calls, RefCalls)
              /\ err = "ValueError" => \E k \in 1..4 : lengths[k] < -1
              /\ err = "AssertionError" => (RefBlob(1) = <<>> /\ lengths[2] # 0)
              /\ pc = "returned" =>
                   /\ calls = RefCalls
                   /\ res.id = "isolate"
                   /\ res.parent = calls[Len(calls)].base.id
    /\ IsElf =>
         /\ res.id = "isolate" => (pc \in {"archs", "returned"} /\ err = "none")
         /\ pc = "returned" =>
              /\ res.id = "isolate"
              /\ Warnings =
                   IF \/ ArchOfMachine(elf.e_machine) # SplitFirst(res.arch)
                      \/ (elf.elfclass = 64) # res.is_64
                   THEN <<ArchWarning>> ELSE <<>>
              /\ (elf.e_machine = "EM_X86_64"
                    /\ ~BeginsWith(res.arch, <<"x","6","4">>)) =>
                   Warnings = <<ArchWarning>>
              /\ print_level >= 1 => Warnings = SelectSeq(Printed,
                                                LAMBDA e : e.level = 1)

C8_Witness ==
    /\ IsAppJit /\ magic \notin {0, kAppJITMagic}
    /\ pc = "returned" /\ Len(calls) = 2
    /\ Warnings = <<MagicWarning>> /\ print_level >= 1

\* the ELF half of C8 happens too: a 64-bit x86 file whose snapshot decodes
\* as another architecture, returned with the warning
C8_ElfCase ==
    /\ IsElf /\ pc = "returned" /\ elf.e_machine = "EM_X86_64"
    /\ ~BeginsWith(res.arch, <<"x","6","4">>) /\ Warnings = <<ArchWarning>>

(***************************************************************************)
(* C9                                                                      *)
(***************************************************************************)
\* C9: raw reader: the parent of the isolate decode is the freshly decoded
\* base when the first length is non-zero, the caller's base argument when
\* the first length is zero; the isolate result is what is returned.
\* (Stated for headers without negative lengths.)
C9_IsolateParent ==
    (HeaderRead /\ NoNegativeLength) =>
        /\ \A i \in IsolateCalls :
             IF lengths[1] # 0
             THEN i = 2 /\ calls[1].vm /\ calls[i].base.id = "vm"
             ELSE i = 1 /\ calls[i].base = base_arg
        /\ pc = "returned" => (res.id = "isolate" /\ IsolateCalls # {})

(***************************************************************************)
(* C10                                                                     *)
(***************************************************************************)
\* section j of the file contains the address of entry s
Contains(j, s) ==
    /\ elf.sections[j].sh_addr <= s.st_value
    /\ s.st_value < elf.sections[j].sh_addr + Len(elf.sections[j].data)

\* C10: ELF reader: blob k is the st_size bytes at in-section offset
\* (st_value - sh_addr) of the first section, in file order, that contains
\* the st_value of the k-th required symbol, and its recorded offset is that
\* st_value; a required symbol that is absent, or whose address no section
\* contains, ends the call with an error and gives no blob.
C10_ElfBlobFromFirstSection ==
    IsElf =>
        /\ \A k \in 1..Len(blobs) :
             /\ kAppAOTSymbols[k] \in DOMAIN symbols
             /\ LET s == symbols[kAppAOTSymbols[k]]
                IN  /\ offsets[k] = s.st_value
                    /\ \E j \in 1..Len(elf.sections) :
                         /\ Contains(j, s)
                         /\ \A i \in 1..(j - 1) : ~Contains(i, s)
                         /\ blobs[k] = ManualSlice(elf.sections[j].data,
                                 s.st_value - elf.sections[j].sh_addr, s.st_size)
        /\ Len(offsets) = Len(blobs)
        /\ (Len(blobs) < 4 /\ pc \notin {"open", "blobs"}) =>
             /\ pc = "raised"
             /\ calls = <<>>
             /\ err \notin {"Exception", "IOError", "ELFError"} =>
                  LET name == kAppAOTSymbols[Len(blobs) + 1]
                  IN  /\ name \notin DOMAIN symbols => err = "KeyError"
                      /\ (name \in DOMAIN symbols
                            /\ \A j \in 1..Len(elf.sections) :
                                 ~Contains(j, symbols[name])) =>
                           err = "StopIteration"

C10_Witness ==
    /\ IsElf /\ Len(blobs) = 4
    /\ offsets[1] = ImageBase + SectionSize - 2
    /\ blobs[1] = ManualSlice(elf.sections[2].data, SectionSize - 2, 2)
    /\ Contains(3, symbols[kAppAOTSymbols[1]])

\* the two fatal cases of C10 happen
C10_FatalCases ==
    /\ IsElf /\ pc = "raised" /\ err \in {"KeyError", "StopIteration"}
    /\ Len(blobs) = 2

====
